---- MODULE Spec2Model ----
(***************************************************************************)
(* woboo: a brainfuck interpreter (src/src/main.rs).                       *)
(*                                                                         *)
(* main reads the source text into buffer, preprocess compiles it into a   *)
(* run-length-grouped instruction vector, and execute interprets that      *)
(* vector against a tape of u8 cells by calling itself once per            *)
(* instruction.  A panic anywhere ends the process.                        *)
(*                                                                         *)
(* Vector positions, destinations and indices keep the 0-based values of   *)
(* the Rust code; At(v, i) reads position i of a TLA+ sequence.            *)
(***************************************************************************)
EXTENDS Integers, Sequences, FiniteSets, TLC

VARIABLES
    args,               \* the parsed Cli (main.rs:8-57), never changed
    overflow_checks,    \* build profile: TRUE = debug (overflow panics), FALSE = release (wraps)
    frame_reuse,        \* build: TRUE = the optimiser turned execute's tail call into a jump
    stdin,              \* the bytes of the input stream not yet consumed; nothing reads it
    buffer,             \* the source text read by main
    pos,                \* position of the iterator buffer.chars() (next char, 1-based)
    instructions,       \* Vec<Instruction> being built, then executed
    stack,              \* preprocess: positions of the open OpLstart
    index,              \* preprocess: the local `index`
    cells,              \* Vec<u8>, allocated by main after preprocess
    cell_index,         \* execute's parameter cell_index
    instruction_index,  \* execute's parameter instruction_index
    stdout,             \* bytes printed so far
    depth,              \* number of frames of execute on the call stack
    pc,                 \* "preprocess", "execute", "done" or "panic"
    panic               \* the panic that ended the process, or NoPanic

vars == <<args, overflow_checks, frame_reuse, stdin, buffer, pos, instructions,
          stack, index, cells, cell_index, instruction_index, stdout, depth,
          pc, panic>>

----------------------------------------------------------------------------
(* Bounds of the model *)

\* longest source text over the full alphabet
MaxLen == 3
\* longest source text over the bracket alphabet
MaxBracketLen == 5
\* largest tape (-c)
MaxCells == 2
\* width of usize in bits (64 or 32 on real targets)
UsizeBits == 16
\* execution stops being explored once this many bytes were printed
MaxOutput == 4
\* execution stops being explored once the call stack holds this many frames of execute
MaxDepth == 48

----------------------------------------------------------------------------
(* Inputs *)

\* the characters a source text is made of: the eight operator characters of
\* the language, and "x" for any other character
Chars == {"+", "-", ">", "<", ".", ",", "[", "]", "x"}
BracketChars == {"[", "]", "+"}

SeqsUpTo(S, n) == UNION {[1..k -> S] : k \in 0..n}

Sources == SeqsUpTo(Chars, MaxLen) \cup SeqsUpTo(BracketChars, MaxBracketLen)

\* the multiplication program: 8 * 8 in cell 1, printed
Mul ==
    <<"+", "+", "+", "+", "+", "+", "+", "+", "[", ">", "+", "+", "+", "+", "+", "+",
      "+", "+", "<", "-", "]", ">", ".">>

\* the sources of the end-to-end runs
EndToEndSources == {Mul, <<>>, <<"[", "]">>, <<"+", "[", "]">>}

\* the defaults of the options, main.rs:10-53 (the default of -c is 30000)
DefaultArgs ==
    [minimum |-> 0, maximum |-> 255, cells |-> MaxCells, eof_value |-> "0",
     value_behaviour |-> "w", pointer_behaviour |-> "w"]

\* Cli: the options the core is configured with: every tape length with every
\* pointer behaviour, and each other option varied alone
Cli ==
    {[DefaultArgs EXCEPT !.cells = c, !.pointer_behaviour = p] :
        c \in 1..MaxCells, p \in {"e", "i", "w"}}
    \cup {[DefaultArgs EXCEPT !.value_behaviour = v] : v \in {"e", "i"}}
    \cup {[DefaultArgs EXCEPT !.eof_value = e] : e \in {"b", "x"}}
    \cup {[DefaultArgs EXCEPT !.minimum = 1], [DefaultArgs EXCEPT !.maximum = 1]}

\* the input streams: empty, or one byte
Inputs == {<<>>, <<65>>}

----------------------------------------------------------------------------
(* Machine integers *)

USIZE_MAX == 2^UsizeBits - 1
U8_MAX == 255

NoPanic == "none"
IndexOutOfBounds == "index out of bounds"
AddOverflow == "attempt to add with overflow"
SubOverflow == "attempt to subtract with overflow"
UnmatchedClose == "Unmatched ] operator"
UnmatchedOpen == "Not enough ] operators!"

\* `quantity as u8`: truncation to the low 8 bits
as_u8(n) == n % (U8_MAX + 1)

\* a + b on an integer type with maximum max: panics under overflow checks, wraps otherwise
CheckedAdd(a, b, max, checks) ==
    IF a + b > max
    THEN IF checks THEN [panic |-> AddOverflow, value |-> a]
                   ELSE [panic |-> NoPanic, value |-> (a + b) % (max + 1)]
    ELSE [panic |-> NoPanic, value |-> a + b]

\* a - b on an unsigned integer type with maximum max
CheckedSub(a, b, max, checks) ==
    IF a - b < 0
    THEN IF checks THEN [panic |-> SubOverflow, value |-> a]
                   ELSE [panic |-> NoPanic, value |-> (a - b + (max + 1)) % (max + 1)]
    ELSE [panic |-> NoPanic, value |-> a - b]

At(v, i) == v[i + 1]
InBounds(v, i) == i >= 0 /\ i < Len(v)
Pop(v) == SubSeq(v, 1, Len(v) - 1)

\* `cells[cell_index] as char` printed with print!("{}"): the UTF-8 encoding of U+0000..U+00FF
Utf8(c) == IF c < 128 THEN <<c>> ELSE <<192 + (c \div 64), 128 + (c % 64)>>

\* the loop of OpOut run once whatever the quantity
RepeatOnce(s, n) == s

RECURSIVE Repeat(_, _)
Repeat(s, n) == IF n = 0 THEN <<>> ELSE s \o Repeat(s, n - 1)

----------------------------------------------------------------------------
(* enum Instruction, main.rs:59-68 *)

OpVinc(q) == [op |-> "OpVinc", quantity |-> q]
OpVdec(q) == [op |-> "OpVdec", quantity |-> q]
OpPinc(q) == [op |-> "OpPinc", quantity |-> q]
OpPdec(q) == [op |-> "OpPdec", quantity |-> q]
OpIn(q) == [op |-> "OpIn", quantity |-> q]
OpOut(q) == [op |-> "OpOut", quantity |-> q]
OpLstart(d) == [op |-> "OpLstart", destination |-> d]
OpLend(d) == [op |-> "OpLend", destination |-> d]

QuantityOps == {"OpVinc", "OpVdec", "OpPinc", "OpPdec", "OpIn", "OpOut"}

\* inc with the quantity arm lost: no instruction is incremented
inc_nothing(instruction) == instruction

\* Instruction::inc, main.rs:71-83
inc(instruction) ==
    IF instruction.op \in QuantityOps
    THEN [instruction EXCEPT !.quantity = @ + 1]
    ELSE instruction

\* variant_eq, main.rs:87-89: same enum discriminant
variant_eq(a, b) == a.op = b.op

----------------------------------------------------------------------------
(* preprocess, main.rs:91-133 *)

\* the match with OpLend sent back to the OpLstart itself, not to the body
MatchCharLendToStart(instrs, stk, c) ==
    LET ok(i, s) == [instructions |-> i, stack |-> s, panic |-> NoPanic, skip |-> FALSE]
        fail(p)  == [instructions |-> instrs, stack |-> Pop(stk), panic |-> p, skip |-> FALSE]
    IN  CASE c = "+" -> ok(Append(instrs, OpVinc(1)), stk)
          [] c = "-" -> ok(Append(instrs, OpVdec(1)), stk)
          [] c = ">" -> ok(Append(instrs, OpPinc(1)), stk)
          [] c = "<" -> ok(Append(instrs, OpPdec(1)), stk)
          [] c = "." -> ok(Append(instrs, OpOut(1)), stk)
          [] c = "[" -> ok(Append(instrs, OpLstart(0)), Append(stk, Len(instrs)))
          [] c = "]" ->
                IF stk = <<>>
                THEN [instructions |-> instrs, stack |-> stk,
                      panic |-> UnmatchedClose, skip |-> FALSE]
                ELSE LET dest == stk[Len(stk)]
                     IN  IF ~InBounds(instrs, dest)
                         THEN fail(IndexOutOfBounds)
                         ELSE ok(Append([instrs EXCEPT ![dest + 1] = OpLstart(Len(instrs))],
                                        OpLend(dest)),
                                 Pop(stk))
          [] OTHER -> [instructions |-> instrs, stack |-> stk,
                       panic |-> NoPanic, skip |-> TRUE]

\* the match on one character, main.rs:95-117
MatchChar(instrs, stk, c) ==
    LET ok(i, s) == [instructions |-> i, stack |-> s, panic |-> NoPanic, skip |-> FALSE]
        fail(p)  == [instructions |-> instrs, stack |-> Pop(stk), panic |-> p, skip |-> FALSE]
    IN  CASE c = "+" -> ok(Append(instrs, OpVinc(1)), stk)
          [] c = "-" -> ok(Append(instrs, OpVdec(1)), stk)
          [] c = ">" -> ok(Append(instrs, OpPinc(1)), stk)
          [] c = "<" -> ok(Append(instrs, OpPdec(1)), stk)
          [] c = "." -> ok(Append(instrs, OpOut(1)), stk)
          [] c = "[" -> ok(Append(instrs, OpLstart(0)), Append(stk, Len(instrs)))
          [] c = "]" ->
                IF stk = <<>>
                THEN [instructions |-> instrs, stack |-> stk,
                      panic |-> UnmatchedClose, skip |-> FALSE]
                ELSE LET dest == stk[Len(stk)]
                     IN  IF ~InBounds(instrs, dest)
                         THEN fail(IndexOutOfBounds)
                         ELSE ok(Append([instrs EXCEPT ![dest + 1] = OpLstart(Len(instrs))],
                                        OpLend(dest + 1)),
                                 Pop(stk))
          [] OTHER -> [instructions |-> instrs, stack |-> stk,
                       panic |-> NoPanic, skip |-> TRUE]

\* "group nearby together", main.rs:118-128
Group(instrs, idx) ==
    IF idx > 0
    THEN IF ~InBounds(instrs, idx)
         THEN [instructions |-> instrs, index |-> idx, panic |-> IndexOutOfBounds]
         ELSE IF variant_eq(At(instrs, idx - 1), At(instrs, idx))
              THEN [instructions |-> [Pop(instrs) EXCEPT ![idx] = inc(@)],
                    index |-> idx, panic |-> NoPanic]
              ELSE [instructions |-> instrs, index |-> idx + 1, panic |-> NoPanic]
    ELSE [instructions |-> instrs, index |-> idx + 1, panic |-> NoPanic]

\* one iteration of `for c in buffer.chars()`, main.rs:94-129
PreprocessChar ==
    /\ pc = "preprocess"
    /\ pos <= Len(buffer)
    /\ LET m == MatchChar(instructions, stack, buffer[pos])
           g == Group(m.instructions, index)
       IN  /\ pos' = pos + 1
           /\ stack' = m.stack
           /\ IF m.panic # NoPanic
              THEN /\ instructions' = m.instructions
                   /\ index' = index
                   /\ pc' = "panic"
                   /\ panic' = m.panic
              ELSE IF m.skip
              THEN /\ instructions' = m.instructions
                   /\ index' = index
                   /\ UNCHANGED <<pc, panic>>
              ELSE /\ instructions' = g.instructions
                   /\ index' = g.index
                   /\ panic' = g.panic
                   /\ pc' = IF g.panic # NoPanic THEN "panic" ELSE "preprocess"
    /\ UNCHANGED <<args, overflow_checks, frame_reuse, stdin, buffer, cells, cell_index,
                   instruction_index, stdout, depth>>

\* the end of the source: main.rs:130-132, then main.rs:180-181
PreprocessReturn ==
    /\ pc = "preprocess"
    /\ pos > Len(buffer)
    /\ IF Len(stack) > 0
       THEN /\ pc' = "panic"
            /\ panic' = UnmatchedOpen
            /\ UNCHANGED <<cells, cell_index, instruction_index, depth>>
       ELSE /\ pc' = "execute"
            /\ cells' = [i \in 1..args.cells |-> 0]
            /\ cell_index' = 0
            /\ instruction_index' = 0
            /\ depth' = 1
            /\ UNCHANGED panic
    /\ UNCHANGED <<args, overflow_checks, frame_reuse, stdin, buffer, pos, instructions,
                   stack, index, stdout>>

----------------------------------------------------------------------------
(* execute, main.rs:135-165 *)

\* the match with the test of OpLend inverted: the loop goes round on a zero cell
ExecuteInstructionLendOnZero(instruction, tape, cindex, iindex, checks) ==
    LET res(t, c, i, o, p) ==
            [cells |-> t, next_cindex |-> c, next_iindex |-> i, out |-> o, panic |-> p]
        next == iindex + 1
        oob == res(tape, cindex, next, <<>>, IndexOutOfBounds)
        op == instruction.op
    IN  CASE op = "OpVinc" ->
                IF ~InBounds(tape, cindex) THEN oob
                ELSE LET r == CheckedAdd(At(tape, cindex), as_u8(instruction.quantity),
                                         U8_MAX, checks)
                     IN  res([tape EXCEPT ![cindex + 1] = r.value], cindex, next, <<>>, r.panic)
          [] op = "OpVdec" ->
                IF ~InBounds(tape, cindex) THEN oob
                ELSE LET r == CheckedSub(At(tape, cindex), as_u8(instruction.quantity),
                                         U8_MAX, checks)
                     IN  res([tape EXCEPT ![cindex + 1] = r.value], cindex, next, <<>>, r.panic)
          [] op = "OpPinc" ->
                LET r == CheckedAdd(cindex, instruction.quantity, USIZE_MAX, checks)
                IN  res(tape, r.value, next, <<>>, r.panic)
          [] op = "OpPdec" ->
                LET r == CheckedSub(cindex, instruction.quantity, USIZE_MAX, checks)
                IN  res(tape, r.value, next, <<>>, r.panic)
          [] op = "OpOut" ->
                IF instruction.quantity = 0 THEN res(tape, cindex, next, <<>>, NoPanic)
                ELSE IF ~InBounds(tape, cindex) THEN oob
                ELSE res(tape, cindex, next,
                         Repeat(Utf8(At(tape, cindex)), instruction.quantity), NoPanic)
          [] op = "OpLstart" ->
                IF ~InBounds(tape, cindex) THEN oob
                ELSE res(tape, cindex,
                         IF At(tape, cindex) = 0 THEN instruction.destination ELSE next,
                         <<>>, NoPanic)
          [] op = "OpLend" ->
                IF ~InBounds(tape, cindex) THEN oob
                ELSE res(tape, cindex,
                         IF At(tape, cindex) = 0 THEN instruction.destination ELSE next,
                         <<>>, NoPanic)
          [] OTHER -> res(tape, cindex, next, <<>>, NoPanic)

\* the match on the fetched instruction, main.rs:145-162
ExecuteInstruction(instruction, tape, cindex, iindex, checks) ==
    LET res(t, c, i, o, p) ==
            [cells |-> t, next_cindex |-> c, next_iindex |-> i, out |-> o, panic |-> p]
        next == iindex + 1
        oob == res(tape, cindex, next, <<>>, IndexOutOfBounds)
        op == instruction.op
    IN  CASE op = "OpVinc" ->
                IF ~InBounds(tape, cindex) THEN oob
                ELSE LET r == CheckedAdd(At(tape, cindex), as_u8(instruction.quantity),
                                         U8_MAX, checks)
                     IN  res([tape EXCEPT ![cindex + 1] = r.value], cindex, next, <<>>, r.panic)
          [] op = "OpVdec" ->
                IF ~InBounds(tape, cindex) THEN oob
                ELSE LET r == CheckedSub(At(tape, cindex), as_u8(instruction.quantity),
                                         U8_MAX, checks)
                     IN  res([tape EXCEPT ![cindex + 1] = r.value], cindex, next, <<>>, r.panic)
          [] op = "OpPinc" ->
                LET r == CheckedAdd(cindex, instruction.quantity, USIZE_MAX, checks)
                IN  res(tape, r.value, next, <<>>, r.panic)
          [] op = "OpPdec" ->
                LET r == CheckedSub(cindex, instruction.quantity, USIZE_MAX, checks)
                IN  res(tape, r.value, next, <<>>, r.panic)
          [] op = "OpOut" ->
                IF instruction.quantity = 0 THEN res(tape, cindex, next, <<>>, NoPanic)
                ELSE IF ~InBounds(tape, cindex) THEN oob
                ELSE res(tape, cindex, next,
                         Repeat(Utf8(At(tape, cindex)), instruction.quantity), NoPanic)
          [] op = "OpLstart" ->
                IF ~InBounds(tape, cindex) THEN oob
                ELSE res(tape, cindex,
                         IF At(tape, cindex) = 0 THEN instruction.destination ELSE next,
                         <<>>, NoPanic)
          [] op = "OpLend" ->
                IF ~InBounds(tape, cindex) THEN oob
                ELSE res(tape, cindex,
                         IF At(tape, cindex) > 0 THEN instruction.destination ELSE next,
                         <<>>, NoPanic)
          [] OTHER -> res(tape, cindex, next, <<>>, NoPanic)

\* the test written with >= : execute returns one instruction early
PastEndEarly(instrs, iindex, checks) ==
    LET r == CheckedSub(Len(instrs), 1, USIZE_MAX, checks)
    IN  [panic |-> r.panic, value |-> iindex >= r.value]

\* `instruction_index > instructions.len() - 1`, main.rs:141
PastEnd(instrs, iindex, checks) ==
    LET r == CheckedSub(Len(instrs), 1, USIZE_MAX, checks)
    IN  [panic |-> r.panic, value |-> iindex > r.value]

\* `return execute(...)`, main.rs:164: the call in tail position takes a new
\* frame, unless the build reuses the caller's
NextDepth(d, reuse) == IF reuse THEN d ELSE d + 1

\* one call of execute that runs an instruction and calls execute again
ExecuteStep ==
    /\ pc = "execute"
    /\ LET e == PastEnd(instructions, instruction_index, overflow_checks)
       IN  /\ e.panic = NoPanic
           /\ ~e.value
           /\ InBounds(instructions, instruction_index)
    /\ LET r == ExecuteInstruction(At(instructions, instruction_index), cells,
                                   cell_index, instruction_index, overflow_checks)
       IN  /\ Len(stdout) + Len(r.out) <= MaxOutput
           /\ frame_reuse \/ depth < MaxDepth
           /\ cells' = r.cells
           /\ stdout' = stdout \o r.out
           /\ IF r.panic # NoPanic
              THEN /\ pc' = "panic"
                   /\ panic' = r.panic
                   /\ UNCHANGED <<cell_index, instruction_index, depth>>
              ELSE /\ cell_index' = r.next_cindex
                   /\ instruction_index' = r.next_iindex
                   /\ depth' = NextDepth(depth, frame_reuse)
                   /\ UNCHANGED <<pc, panic>>
    /\ UNCHANGED <<args, overflow_checks, frame_reuse, stdin, buffer, pos, instructions,
                   stack, index>>

\* the call of execute that returns at main.rs:141-143
ExecuteReturn ==
    /\ pc = "execute"
    /\ LET e == PastEnd(instructions, instruction_index, overflow_checks)
       IN  /\ e.panic = NoPanic
           /\ e.value
    /\ pc' = "done"
    /\ depth' = 0
    /\ UNCHANGED <<args, overflow_checks, frame_reuse, stdin, buffer, pos, instructions,
                   stack, index, cells, cell_index, instruction_index, stdout, panic>>

\* the call of execute that panics before running an instruction, main.rs:141-144
ExecuteFetchPanic ==
    /\ pc = "execute"
    /\ LET e == PastEnd(instructions, instruction_index, overflow_checks)
       IN  /\ \/ e.panic # NoPanic
              \/ ~e.value /\ ~InBounds(instructions, instruction_index)
           /\ panic' = IF e.panic # NoPanic THEN e.panic ELSE IndexOutOfBounds
    /\ pc' = "panic"
    /\ UNCHANGED <<args, overflow_checks, frame_reuse, stdin, buffer, pos, instructions,
                   stack, index, cells, cell_index, instruction_index, stdout, depth>>

----------------------------------------------------------------------------

\* the state when main calls preprocess, main.rs:177-178, on the source src
Start(src) ==
    /\ args \in Cli
    /\ overflow_checks \in BOOLEAN
    /\ frame_reuse \in BOOLEAN
    /\ overflow_checks => ~frame_reuse
    /\ stdin \in Inputs
    /\ stdin # <<>> => args = DefaultArgs
    /\ buffer \in src
    /\ pos = 1
    /\ instructions = <<>>
    /\ stack = <<>>
    /\ index = 0
    /\ cells = <<>>
    /\ cell_index = 0
    /\ instruction_index = 0
    /\ stdout = <<>>
    /\ depth = 0
    /\ pc = "preprocess"
    /\ panic = NoPanic

Init == Start(Sources)

InitEndToEnd == Start(EndToEndSources)

Next ==
    \/ PreprocessChar
    \/ PreprocessReturn
    \/ ExecuteStep
    \/ ExecuteReturn
    \/ ExecuteFetchPanic

Spec == Init /\ [][Next]_vars

\* the end-to-end runs; the process runs until it returns or panics
FairSpec == InitEndToEnd /\ [][Next]_vars /\ WF_vars(Next)

TypeOK ==
    /\ pc \in {"preprocess", "execute", "done", "panic"}
    /\ (panic = NoPanic) <=> (pc # "panic")
    /\ index = Len(instructions) \/ pc = "panic"
    /\ \A i \in 1..Len(cells) : cells[i] \in 0..U8_MAX
    /\ cell_index \in 0..USIZE_MAX
----------------------------------------------------------------------------
(* Vocabulary of the properties *)

\* the eight operator characters of the language
Operators == {"+", "-", ">", "<", ".", ",", "[", "]"}

Count(s, S) == Cardinality({i \in 1..Len(s) : s[i] \in S})

\* preprocess returned to main / preprocess panicked (cells is allocated only after it returned)
CompileSucceeded == pc \in {"execute", "done"} \/ (pc = "panic" /\ cells # <<>>)
CompileFailed == pc = "panic" /\ cells = <<>>

\* nesting depth of the source after its first k characters
SrcDepth(k) == Count(SubSeq(buffer, 1, k), {"["}) - Count(SubSeq(buffer, 1, k), {"]"})
HasUnmatchedClose == \E k \in 1..Len(buffer) : SrcDepth(k) < 0
HasUnmatchedOpen == ~HasUnmatchedClose /\ SrcDepth(Len(buffer)) > 0
Balanced == ~HasUnmatchedClose /\ SrcDepth(Len(buffer)) = 0

Ops(instrs) == [i \in 1..Len(instrs) |-> instrs[i].op]
InstrDepth(k) ==
    Count(SubSeq(Ops(instructions), 1, k), {"OpLstart"})
    - Count(SubSeq(Ops(instructions), 1, k), {"OpLend"})

\* the instruction kind the language gives each operator character
KindOf(c) ==
    CASE c = "+" -> "OpVinc" [] c = "-" -> "OpVdec"
      [] c = ">" -> "OpPinc" [] c = "<" -> "OpPdec"
      [] c = "." -> "OpOut"  [] c = "," -> "OpIn"
      [] c = "[" -> "OpLstart" [] c = "]" -> "OpLend"

RECURSIVE Filter(_, _)
Filter(s, S) ==
    IF s = <<>> THEN <<>>
    ELSE IF s[1] \in S THEN <<s[1]>> \o Filter(Tail(s), S) ELSE Filter(Tail(s), S)

\* the maximal runs of identical non-loop operators of a text without non-operators:
\* one [op, quantity] per run, a bracket ending the run before it
RECURSIVE Runs(_)
Runs(s) ==
    IF s = <<>> THEN <<>>
    ELSE LET rest == Runs(Tail(s))
         IN  IF s[1] \in {"[", "]"} THEN rest
             ELSE IF Len(s) > 1 /\ s[2] = s[1]
                  THEN <<[rest[1] EXCEPT !.quantity = @ + 1]>> \o Tail(rest)
                  ELSE <<[op |-> KindOf(s[1]), quantity |-> 1]>> \o rest

RECURSIVE FilterInstrs(_)
FilterInstrs(s) ==
    IF s = <<>> THEN <<>>
    ELSE IF s[1].op \in QuantityOps THEN <<s[1]>> \o FilterInstrs(Tail(s))
         ELSE FilterInstrs(Tail(s))

----------------------------------------------------------------------------
(* Properties *)

\* C1: while a compiled program executes, 0 <= cell_index < tape length,
\* under every pointer overflow policy.
C1_CellIndexInTape ==
    pc \in {"execute", "done"} => (cell_index >= 0 /\ cell_index < Len(cells))

\* C2: a source with balanced, properly nested brackets compiles without error
\* and to at most as many instructions as it has operator characters.
C2_BalancedCompiles ==
    Balanced =>
        /\ ~CompileFailed
        /\ CompileSucceeded => Len(instructions) <= Count(buffer, Operators)

\* C3: after a successful compilation the OpLstart and OpLend instructions are
\* properly nested: each OpLstart has one matching OpLend after it and each
\* OpLend one matching OpLstart before it, so there are as many of one as of
\* the other.
C3_LoopsMatched ==
    CompileSucceeded =>
        /\ \A k \in 0..Len(instructions) : InstrDepth(k) >= 0
        /\ InstrDepth(Len(instructions)) = 0

\* C4: loop markers are never merged: at every point of the compilation each
\* '[' read so far has its own OpLstart and each ']' its own OpLend.
C4_LoopMarkersNeverMerged ==
    pc = "preprocess" =>
        /\ Count(Ops(instructions), {"OpLstart"}) = Count(SubSeq(buffer, 1, pos - 1), {"["})
        /\ Count(Ops(instructions), {"OpLend"}) = Count(SubSeq(buffer, 1, pos - 1), {"]"})

\* C5: a source with a ']' that has no pending '[' fails to compile with
\* UnmatchedClose, and a source that ends with a '[' still open fails with
\* UnmatchedOpen; no other failure is the outcome.
C5_UnmatchedBracketErrors ==
    (CompileSucceeded \/ CompileFailed) =>
        /\ HasUnmatchedClose => (CompileFailed /\ panic = UnmatchedClose)
        /\ HasUnmatchedOpen => (CompileFailed /\ panic = UnmatchedOpen)

\* C6: each maximal run of k identical non-loop operator characters
\* (non-operator characters skipped) compiles to exactly one instruction of
\* that kind with quantity k, and different kinds are never merged.
C6_RunLengthMerging ==
    CompileSucceeded =>
        FilterInstrs(instructions) = Runs(Filter(buffer, Operators))

\* C7: compiling one character: each of the eight operator characters gives an
\* instruction of its kind (appended or merged into the last instruction),
\* ',' giving OpIn, and every other character changes nothing.
C7_CharacterMapping ==
    [][(PreprocessChar /\ pc' # "panic") =>
          IF buffer[pos] \in Operators
          THEN /\ instructions' # <<>>
               /\ instructions'[Len(instructions')].op = KindOf(buffer[pos])
          ELSE instructions' = instructions]_vars

\* the instruction execute is about to run
Fetched == At(instructions, instruction_index)
Running(op) ==
    /\ ExecuteStep
    /\ Fetched.op = op

\* C8: with value_behaviour w, minimum 0 and maximum 255, OpVinc with quantity n
\* on a cell holding v leaves (v + n) mod 256 and OpVdec leaves (v - n) mod 256,
\* without error or abort.
C8_ValueWraps ==
    [][(/\ args.value_behaviour = "w" /\ args.minimum = 0 /\ args.maximum = 255
        /\ InBounds(cells, cell_index)
        /\ (Running("OpVinc") \/ Running("OpVdec")))
       => /\ pc' # "panic"
          /\ At(cells', cell_index) =
                IF Fetched.op = "OpVinc"
                THEN (At(cells, cell_index) + Fetched.quantity) % 256
                ELSE (At(cells, cell_index) - Fetched.quantity + 256 * Fetched.quantity) % 256]_vars

\* C9: with pointer_behaviour w, OpPinc with quantity n moves the pointer to
\* (cell_index + n) mod tape length and OpPdec to (cell_index - n) mod tape length.
C9_PointerWraps ==
    [][(/\ args.pointer_behaviour = "w"
        /\ InBounds(cells, cell_index)
        /\ (Running("OpPinc") \/ Running("OpPdec")))
       => /\ pc' # "panic"
          /\ cell_index' =
                IF Fetched.op = "OpPinc"
                THEN (cell_index + Fetched.quantity) % Len(cells)
                ELSE (cell_index - Fetched.quantity + Len(cells) * Fetched.quantity) % Len(cells)]_vars

\* C10: with pointer_behaviour e, a pointer instruction whose steps would leave
\* [0, tape length - 1] aborts the run at that instruction (">" on a tape of
\* one cell does not terminate normally).
C10_PointerErrorAborts ==
    [][(/\ args.pointer_behaviour = "e"
        /\ InBounds(cells, cell_index)
        /\ \/ Running("OpPinc") /\ cell_index + Fetched.quantity > Len(cells) - 1
           \/ Running("OpPdec") /\ cell_index - Fetched.quantity < 0)
       => pc' = "panic"]_vars

\* C11: every cell of the tape holds a value within [minimum, maximum], for
\* every configured minimum and maximum and every value overflow behaviour.
C11_CellsWithinRange ==
    \A i \in 1..Len(cells) : cells[i] >= args.minimum /\ cells[i] <= args.maximum

\* a source that changes cell 0, then reads one byte into it and prints it
ReadsThenPrints ==
    /\ Len(buffer) >= 2
    /\ buffer[Len(buffer) - 1] = ","
    /\ buffer[Len(buffer)] = "."
    /\ \A i \in 1..(Len(buffer) - 2) : buffer[i] \in {"+", "-", "x"}

\* C12: with eof_value 0, an Input executed on an exhausted input stream
\* stores 0 in the current cell whatever it held, so a run of such a source on
\* an empty input stream prints exactly the byte 0.
C12_EofStoresZero ==
    (/\ args.eof_value = "0" /\ stdin = <<>>
     /\ ReadsThenPrints
     /\ pc = "done")
    => stdout = <<0>>

\* every option but the tape length has its default
DefaultOptions == [args EXCEPT !.cells = DefaultArgs.cells] = DefaultArgs

\* C13: the run of Mul on a tape of at least two cells with the default
\* options ends normally with cell 0 = 0, cell 1 = 64, cell_index = 1 and the
\* single byte 64 printed.
C13_MulPrints64 ==
    (/\ buffer = Mul /\ pc = "preprocess" /\ pos = 1
     /\ DefaultOptions /\ args.cells >= 2)
    ~> (/\ pc = "done" /\ Len(cells) >= 2
        /\ At(cells, 0) = 0 /\ At(cells, 1) = 64
        /\ cell_index = 1
        /\ stdout = <<64>>)

C13_Witness ==
    /\ buffer = Mul /\ DefaultOptions /\ args.cells >= 2
    /\ pc = "done" /\ Len(cells) >= 2 /\ At(cells, 1) = 64 /\ stdout = <<64>>

Empty == <<"[", "]">>
Tight == <<"+", "[", "]">>

\* C14 as claimed: in the run of "+[]" the LoopStart sees zero and jumps past
\* the LoopEnd, so that the run reaches instruction_index = instructions.len()
\* without entering the loop.
C14_PlusLoopSkipsBody ==
    [][(buffer = Tight /\ Running("OpLstart"))
       => instruction_index' = Len(instructions)]_vars

\* C14 as amended: in the run of "+[]" the LoopStart sees 1 and the run never
\* ends normally; it is the run of "[]" whose LoopStart sees zero and which
\* ends normally at instruction_index = instructions.len() without a jump back.
C14_EmptyLoopSkipped ==
    /\ [](buffer = Tight =>
            /\ pc # "done"
            /\ (pc = "execute" /\ instruction_index >= 1) => At(cells, 0) = 1)
    /\ [](buffer = Empty /\ pc \in {"execute", "done"} =>
            \A i \in 1..Len(cells) : cells[i] = 0)
    /\ [][buffer = Empty => instruction_index' >= instruction_index]_vars
    /\ (buffer = Empty /\ pc = "preprocess" /\ pos = 1)
          ~> (pc = "done" /\ instruction_index = Len(instructions) /\ stdout = <<>>)

C14_Witness ==
    /\ buffer = Tight /\ pc = "execute" /\ ~frame_reuse /\ depth = MaxDepth
    /\ instruction_index = 2 /\ At(cells, 0) = 1

\* the cell under the pointer
Current == At(cells, cell_index)

MatchedPairs ==
    LET n == Len(instructions)
    IN  {p \in (0..(n - 1)) \X (0..(n - 1)) :
            /\ p[1] < p[2]
            /\ At(instructions, p[1]).op = "OpLstart"
            /\ At(instructions, p[2]).op = "OpLend"
            /\ InstrDepth(p[2] + 1) = InstrDepth(p[1])
            /\ \A k \in (p[1] + 1)..p[2] : InstrDepth(k) > InstrDepth(p[1])}

\* C16 as claimed: after a successful compilation, for every matched pair the
\* OpLstart's destination is e + 1 and the OpLend's is s + 1, both within
\* [0, instructions.len()].
C16_TargetsPastLoopEnd ==
    CompileSucceeded =>
        \A p \in MatchedPairs :
            /\ At(instructions, p[1]).destination = p[2] + 1
            /\ At(instructions, p[2]).destination = p[1] + 1
            /\ At(instructions, p[1]).destination \in 0..Len(instructions)
            /\ At(instructions, p[2]).destination \in 0..Len(instructions)

\* C16 as amended: compiling a ']' against the popped position s, with the
\* OpLend pushed at position e, makes the instruction at s an OpLstart whose
\* destination is e, the position of the OpLend itself, and gives the OpLend
\* the destination s + 1 (a pushed OpLend that is grouped away leaves the
\* OpLend before it).  In a compiled sequence every OpLstart's destination lies
\* after it and within instructions.len(), every OpLend's at or before it.
C16_TargetsAtLoopEnd ==
    /\ [][(PreprocessChar /\ buffer[pos] = "]" /\ pc' # "panic") =>
            LET s == stack[Len(stack)]
                e == Len(instructions)
            IN  /\ At(instructions', s) = OpLstart(e)
                /\ IF Len(instructions') > e
                   THEN At(instructions', e) = OpLend(s + 1)
                   ELSE At(instructions', e - 1).op = "OpLend"]_vars
    /\ [](CompileSucceeded =>
            \A i \in 0..(Len(instructions) - 1) :
                LET instruction == At(instructions, i)
                IN  /\ instruction.op = "OpLstart" =>
                        instruction.destination \in (i + 1)..Len(instructions)
                    /\ instruction.op = "OpLend" =>
                        instruction.destination \in 1..i)

\* a compiled loop with a body, after other instructions
C16_Witness ==
    /\ pc = "execute"
    /\ \E p \in MatchedPairs : p[1] >= 1 /\ p[2] > p[1] + 1

\* C17: instruction_index stays within [0, instructions.len()], the run ends
\* normally exactly when it equals instructions.len(), and no fetch is out of
\* range; the empty sequence ends at once, with no output and a zero tape.
C17_InstructionIndexInRange ==
    CompileSucceeded =>
        /\ instruction_index \in 0..Len(instructions)
        /\ pc = "done" => instruction_index = Len(instructions)
        /\ (pc = "execute" /\ instruction_index = Len(instructions)) => ENABLED ExecuteReturn
        /\ ~ENABLED ExecuteFetchPanic
        /\ instructions = <<>> => pc # "panic"

\* C18: the engine is iterative: however many instructions have been
\* executed, at most one frame of execute is on the call stack.
C18_StackDepthBounded == depth <= 1

RECURSIVE Sum(_)
Sum(s) == IF s = <<>> THEN 0 ELSE s[1] + Sum(Tail(s))

\* what an instruction stands for in operator characters
Weight(instruction) ==
    IF instruction.op \in QuantityOps THEN instruction.quantity ELSE 1

\* C19: compilation conserves operators: the quantities of the non-loop
\* instructions plus the number of loop instructions add up to the number of
\* operator characters of the source, and the non-loop instructions are the
\* runs of the source.
C19_OperatorsConserved ==
    CompileSucceeded =>
        /\ Sum([i \in 1..Len(instructions) |-> Weight(instructions[i])])
              = Count(buffer, Operators)
        /\ FilterInstrs(instructions) = Runs(Filter(buffer, Operators))

\* the characters a sequence of bytes encodes in UTF-8 (-1: not an encoding)
RECURSIVE Utf8Decode(_)
Utf8Decode(b) ==
    IF b = <<>> THEN <<>>
    ELSE IF b[1] < 128 THEN <<b[1]>> \o Utf8Decode(Tail(b))
    ELSE IF /\ b[1] >= 192 /\ b[1] < 224 /\ Len(b) >= 2
            /\ b[2] >= 128 /\ b[2] < 192
         THEN <<(b[1] - 192) * 64 + (b[2] - 128)>> \o Utf8Decode(Tail(Tail(b)))
         ELSE <<-1>>

\* the bytes a step printed
Printed == SubSeq(stdout', Len(stdout) + 1, Len(stdout'))

\* C20: the frame of an execution step.  OpVinc / OpVdec change at most the
\* cell under the pointer; OpPinc / OpPdec change at most cell_index; OpOut
\* with quantity n prints n characters whose code is the current cell's value
\* and changes neither the tape nor cell_index; no step of execute changes
\* the length of the tape or the instructions.
C20_StepFrame ==
    [][(pc = "execute") =>
          /\ Len(cells') = Len(cells)
          /\ instructions' = instructions
          /\ (Running("OpVinc") \/ Running("OpVdec")) =>
                /\ cell_index' = cell_index
                /\ stdout' = stdout
                /\ \A i \in 1..Len(cells) : i # cell_index + 1 => cells'[i] = cells[i]
          /\ (Running("OpPinc") \/ Running("OpPdec")) =>
                /\ cells' = cells
                /\ stdout' = stdout
          /\ Running("OpOut") =>
                /\ cells' = cells
                /\ cell_index' = cell_index
                /\ Len(stdout') >= Len(stdout)
                /\ SubSeq(stdout', 1, Len(stdout)) = stdout
                /\ pc' # "panic" =>
                      Utf8Decode(Printed) = [i \in 1..Fetched.quantity |-> Current]]_vars

\* "-.." has printed the character 255 twice
C20_Witness ==
    /\ buffer = <<"-", ".", ".">> /\ pc = "done"
    /\ stdout = <<195, 191, 195, 191>> /\ cells[1] = 255 /\ cell_index = 0
====
